---------------------------- MODULE Spec2Model ----------------------------
(***************************************************************************)
(* Model of the Cloudflare Email Worker of status-monitor                  *)
(* (email-worker/src/index.ts): the email handler, concatenate,            *)
(* extractTextBody and cleanBody.                                          *)
(*                                                                         *)
(* A JavaScript string is a sequence of UTF-16 code units, modelled as a   *)
(* sequence of natural numbers (the character codes), so that              *)
(* String.fromCharCode(parseInt(hex, 16)) is arithmetic.  The regular      *)
(* expressions are modelled by what the backtracking matcher returns: the  *)
(* leftmost match, greedy and lazy quantifiers resolved as the matcher     *)
(* resolves them.                                                          *)
(***************************************************************************)
EXTENDS Integers, Sequences, FiniteSets, TLC

(***************************************************************************)
(* Character codes named in the source's literals and regular expressions. *)
(***************************************************************************)
CR == 13
LF == 10
SP == 32
EQ == 61
DASH == 45
COLON == 58
LT == 60
GT == 62
AMP == 38
UNDERSCORE == 95
REPLACEMENT == 65533

LitContentType == <<67, 111, 110, 116, 101, 110, 116, 45, 84, 121, 112, 101, 58>>  \* "Content-Type:"
LitTextPlain == <<116, 101, 120, 116, 47, 112, 108, 97, 105, 110>>                \* "text/plain"
LitTextHtml == <<116, 101, 120, 116, 47, 104, 116, 109, 108>>                     \* "text/html"
LitStyleOpen == <<60, 115, 116, 121, 108, 101>>                                   \* "<style"
LitStyleClose == <<60, 47, 115, 116, 121, 108, 101, 62>>                          \* "</style>"
LitNbsp == <<38, 110, 98, 115, 112, 59>>                                          \* "&nbsp;"
LitAmp == <<38, 97, 109, 112, 59>>                                                \* "&amp;"
LitLt == <<38, 108, 116, 59>>                                                     \* "&lt;"
LitGt == <<38, 103, 116, 59>>                                                     \* "&gt;"
LitBlankLine == <<13, 10, 13, 10>>                                                \* "\r\n\r\n"
LitDashDash == <<45, 45>>                                                         \* "--"
LitNoSubject == <<40, 110, 111, 32, 115, 117, 98, 106, 101, 99, 116, 41>>         \* "(no subject)"

BodyCap == 2000
LastResortLen == 500

(***************************************************************************)
(* Character classes of the JavaScript regular expressions.                *)
(***************************************************************************)
\* \s, and the characters String.prototype.trim removes (WhiteSpace and LineTerminator)
SpaceChars ==
    {9, 10, 11, 12, 13, 32, 160, 5760, 8232, 8233, 8239, 8287, 12288, 65279}
        \cup 8192..8202

IsSpace(c) == c \in SpaceChars

\* [\w-]
WordOrDashChars == 48..57 \cup 65..90 \cup 97..122 \cup {UNDERSCORE, DASH}

\* [0-9A-Fa-f]
IsHex(c) == c \in 48..57 \/ c \in 65..70 \/ c \in 97..102

\* parseInt of one hexadecimal digit
HexVal(c) ==
    IF c \in 48..57 THEN c - 48
    ELSE IF c \in 65..70 THEN c - 55
    ELSE c - 87

\* the canonicalisation of the i flag, on the ASCII letters of the patterns
Lower(c) == IF c \in 65..90 THEN c + 32 ELSE c

Min(S) == CHOOSE x \in S : \A y \in S : x <= y

\* the literal lit occurs in s at position i (1-based)
MatchAt(s, i, lit) ==
    /\ i >= 1
    /\ i + Len(lit) - 1 <= Len(s)
    /\ \A k \in 1..Len(lit) : s[i + k - 1] = lit[k]

\* the same under the i flag
MatchAtCI(s, i, lit) ==
    /\ i >= 1
    /\ i + Len(lit) - 1 <= Len(s)
    /\ \A k \in 1..Len(lit) : Lower(s[i + k - 1]) = Lower(lit[k])

\* the first position p >= i with s[p] in the class C, Len(s) + 1 when there is
\* none: where a greedy run of [^C] that starts at i ends
FirstIn(s, i, C) ==
    LET S == {p \in i..Len(s) : s[p] \in C}
    IN IF S = {} THEN Len(s) + 1 ELSE Min(S)

\* the first position p >= i with s[p] not in the class C, Len(s) + 1 when there
\* is none: where a greedy run of [C] that starts at i ends
FirstNotIn(s, i, C) ==
    LET S == {p \in i..Len(s) : s[p] \notin C}
    IN IF S = {} THEN Len(s) + 1 ELSE Min(S)

\* \r?\n at position p: the position after it, 0 when it does not match
EndOfLine(s, p) ==
    IF p >= 1 /\ p + 1 <= Len(s) /\ s[p] = CR /\ s[p + 1] = LF THEN p + 2
    ELSE IF p >= 1 /\ p <= Len(s) /\ s[p] = LF THEN p + 1
    ELSE 0

(***************************************************************************)
(* The patterns of cleanBody.  PatEnd(s, i) is the position of the last    *)
(* character of the match that starts at i, 0 when the pattern does not    *)
(* match there.                                                            *)
(***************************************************************************)
\* /=\r?\n/
SoftBreakEnd(s, i) ==
    IF s[i] = EQ /\ EndOfLine(s, i + 1) # 0 THEN EndOfLine(s, i + 1) - 1 ELSE 0

\* /=([0-9A-Fa-f]{2})/
HexEscapeEnd(s, i) ==
    IF s[i] = EQ /\ i + 2 <= Len(s) /\ IsHex(s[i + 1]) /\ IsHex(s[i + 2])
    THEN i + 2 ELSE 0

\* (_, hex) => String.fromCharCode(parseInt(hex, 16))
HexChar(s, i) == 16 * HexVal(s[i + 1]) + HexVal(s[i + 2])

\* /\s+/ (greedy: the whole run)
SpaceRunEnd(s, i) ==
    IF IsSpace(s[i])
    THEN FirstNotIn(s, i, SpaceChars) - 1
    ELSE 0

\* String.prototype.trim: from the first to the last character that is not whitespace
Trim(s) ==
    LET first == FirstNotIn(s, 1, SpaceChars)
        last == CHOOSE p \in 0..Len(s) :
                    /\ p = 0 \/ ~IsSpace(s[p])
                    /\ \A q \in (p + 1)..Len(s) : IsSpace(s[q])
    IN SubSeq(s, first, last)

\* String.prototype.slice(0, n), n >= 0
SliceTo(s, n) == SubSeq(s, 1, IF Len(s) < n THEN Len(s) ELSE n)

\* String.prototype.slice(k), k >= 0 (0-based)
SliceFrom(s, k) == SubSeq(s, k + 1, Len(s))

\* String.prototype.indexOf: 0-based, -1 when lit does not occur
IndexOf(s, lit) ==
    LET S == {i \in 1..Len(s) : MatchAt(s, i, lit)}
    IN IF S = {} THEN -1 ELSE Min(S) - 1

(***************************************************************************)
(* cleanBody.                                                              *)
(* Each .replace(/.../g, r) replaces the leftmost match and resumes after  *)
(* it; none of the patterns matches the empty string or looks behind, so   *)
(* the rest of the string is replaced as a string of its own.              *)
(***************************************************************************)
RECURSIVE RemoveSoftBreaks(_)
RemoveSoftBreaks(text) ==
    LET starts == {i \in 1..Len(text) : SoftBreakEnd(text, i) # 0}
    IN IF starts = {} THEN text
       ELSE LET i == Min(starts)
            IN SubSeq(text, 1, i - 1)
                   \o RemoveSoftBreaks(SliceFrom(text, SoftBreakEnd(text, i)))

RECURSIVE DecodeHexEscapes(_)
DecodeHexEscapes(text) ==
    LET starts == {i \in 1..Len(text) : HexEscapeEnd(text, i) # 0}
    IN IF starts = {} THEN text
       ELSE LET i == Min(starts)
            IN SubSeq(text, 1, i - 1) \o <<HexChar(text, i)>>
                   \o DecodeHexEscapes(SliceFrom(text, HexEscapeEnd(text, i)))

RECURSIVE CollapseWhitespace(_)
CollapseWhitespace(text) ==
    LET starts == {i \in 1..Len(text) : SpaceRunEnd(text, i) # 0}
    IN IF starts = {} THEN text
       ELSE LET i == Min(starts)
            IN SubSeq(text, 1, i - 1) \o <<SP>>
                   \o CollapseWhitespace(SliceFrom(text, SpaceRunEnd(text, i)))

\* a variant that substitutes the hex escapes before it removes the soft breaks
QuotedPrintableUnescapeHexFirst(text) == RemoveSoftBreaks(DecodeHexEscapes(text))

\* the first two replace calls: the quoted-printable unescape
QuotedPrintableUnescape(text) == DecodeHexEscapes(RemoveSoftBreaks(text))

\* the last two calls: .replace(/\s+/g, " ").trim()
NormalizeWhitespace(text) == Trim(CollapseWhitespace(text))

\* a variant that normalises the whitespace before it unescapes
cleanBodyWhitespaceFirst(text) == QuotedPrintableUnescape(NormalizeWhitespace(text))

cleanBody(text) == NormalizeWhitespace(QuotedPrintableUnescape(text))

(***************************************************************************)
(* extractTextBody: the two section patterns.                              *)
(*                                                                         *)
(*   /Content-Type:\s*text\/plain[^\r\n]*\r?\n(?:[\w-]+:[^\r\n]*\r?\n)*    *)
(*    \r?\n([\s\S]*?)(?:\r?\n--|\r?\n\r?\n--)/i                            *)
(*   /Content-Type:\s*text\/html[^\r\n]*\r?\n(?:[\w-]+:[^\r\n]*\r?\n)*     *)
(*    \r?\n([\s\S]*?)(?:\r?\n--)/i                                         *)
(*                                                                         *)
(* Up to the capture group every quantifier has one way to match from a    *)
(* given start: \s* stops at "t", [^\r\n]* at the line ending, [\w-]+ at   *)
(* ":", and the header-line group cannot give back a line, since a header  *)
(* line does not start with a line ending.  The lazy group then ends at    *)
(* the first position where the terminator matches.                        *)
(***************************************************************************)
\* [\w-]+:[^\r\n]*\r?\n at position p: the position after it, 0 when no match
HeaderLineEnd(s, p) ==
    LET q == FirstNotIn(s, p, WordOrDashChars)
    IN IF q > p /\ q <= Len(s) /\ s[q] = COLON
       THEN EndOfLine(s, FirstIn(s, q + 1, {CR, LF}))
       ELSE 0

\* (?:[\w-]+:[^\r\n]*\r?\n)* at position p, greedy: the position after the last line
RECURSIVE SkipHeaderLines(_, _)
SkipHeaderLines(s, p) ==
    IF HeaderLineEnd(s, p) = 0 THEN p ELSE SkipHeaderLines(s, HeaderLineEnd(s, p))

\* Content-Type:\s*<subtype>[^\r\n]*\r?\n(?:...)*\r?\n starting at position i:
\* the position where the capture group starts, 0 when it does not match
SectionBodyStart(s, i, subtype) ==
    IF ~MatchAtCI(s, i, LitContentType) THEN 0
    ELSE LET p2 == FirstNotIn(s, i + Len(LitContentType), SpaceChars)
         IN IF ~MatchAtCI(s, p2, subtype) THEN 0
            ELSE LET p5 == EndOfLine(s, FirstIn(s, p2 + Len(subtype), {CR, LF}))
                 IN IF p5 = 0 THEN 0
                    ELSE EndOfLine(s, SkipHeaderLines(s, p5))

\* \r?\n-- at position e
BoundaryAt(s, e) == EndOfLine(s, e) # 0 /\ MatchAt(s, EndOfLine(s, e), LitDashDash)

\* \r?\n\r?\n-- at position e
BlankThenBoundaryAt(s, e) == EndOfLine(s, e) # 0 /\ BoundaryAt(s, EndOfLine(s, e))

\* the terminator after the capture group at position e:
\* (?:\r?\n--|\r?\n\r?\n--) of the text/plain pattern, (?:\r?\n--) of the text/html one
TerminatorAt(s, e, subtype) ==
    IF subtype = LitTextPlain
    THEN BoundaryAt(s, e) \/ BlankThenBoundaryAt(s, e)
    ELSE BoundaryAt(s, e)

\* raw.match(<pattern>): [found, group1]; the leftmost start from which the
\* pattern matches, the capture ending at the first terminator at or after its start
SectionMatch(s, subtype) ==
    LET Ends(c) == {e \in c..Len(s) : TerminatorAt(s, e, subtype)}
        starts == {i \in 1..Len(s) :
                      /\ SectionBodyStart(s, i, subtype) # 0
                      /\ Ends(SectionBodyStart(s, i, subtype)) # {}}
    IN IF starts = {} THEN [found |-> FALSE, group1 |-> <<>>]
       ELSE LET c == SectionBodyStart(s, Min(starts), subtype)
            IN [found |-> TRUE, group1 |-> SubSeq(s, c, Min(Ends(c)) - 1)]

plainBoundaryMatch(s) == SectionMatch(s, LitTextPlain)

htmlMatch(s) == SectionMatch(s, LitTextHtml)

(***************************************************************************)
(* extractTextBody: the HTML fallback's replace chain.                     *)
(***************************************************************************)
\* /<style[^>]*>[\s\S]*?<\/style>/i at position i: the last position of the match, 0 if none
StyleBlockEnd(s, i) ==
    IF ~MatchAtCI(s, i, LitStyleOpen) THEN 0
    ELSE LET g == FirstIn(s, i + Len(LitStyleOpen), {GT})
             closes == {h \in (g + 1)..Len(s) : MatchAtCI(s, h, LitStyleClose)}
         IN IF g > Len(s) \/ closes = {} THEN 0
            ELSE Min(closes) + Len(LitStyleClose) - 1

\* /<[^>]+>/ at position i
TagEnd(s, i) ==
    IF s[i] = LT /\ i + 1 <= Len(s) /\ s[i + 1] # GT
    THEN LET g == FirstIn(s, i + 1, {GT})
         IN IF g > Len(s) THEN 0 ELSE g
    ELSE 0

\* .replace(/<style[^>]*>[\s\S]*?<\/style>/gi, "")
RECURSIVE StripStyleBlocks(_)
StripStyleBlocks(s) ==
    LET starts == {i \in 1..Len(s) : StyleBlockEnd(s, i) # 0}
    IN IF starts = {} THEN s
       ELSE LET i == Min(starts)
            IN SubSeq(s, 1, i - 1) \o StripStyleBlocks(SliceFrom(s, StyleBlockEnd(s, i)))

\* .replace(/<[^>]+>/g, " ")
RECURSIVE StripTags(_)
StripTags(s) ==
    LET starts == {i \in 1..Len(s) : TagEnd(s, i) # 0}
    IN IF starts = {} THEN s
       ELSE LET i == Min(starts)
            IN SubSeq(s, 1, i - 1) \o <<SP>> \o StripTags(SliceFrom(s, TagEnd(s, i)))

\* .replace(/<literal>/g, rep)
RECURSIVE ReplaceLiteral(_, _, _)
ReplaceLiteral(s, lit, rep) ==
    LET starts == {i \in 1..Len(s) : MatchAt(s, i, lit)}
    IN IF starts = {} THEN s
       ELSE LET i == Min(starts)
            IN SubSeq(s, 1, i - 1) \o rep
                   \o ReplaceLiteral(SliceFrom(s, i + Len(lit) - 1), lit, rep)

\* the four entity substitutions, in the order of the source
DecodeEntities(s) ==
    ReplaceLiteral(
        ReplaceLiteral(
            ReplaceLiteral(
                ReplaceLiteral(s, LitNbsp, <<SP>>),
                LitAmp, <<AMP>>),
            LitLt, <<LT>>),
        LitGt, <<GT>>)

\* the argument of cleanBody in the HTML fallback
HtmlToText(html) == DecodeEntities(StripTags(StripStyleBlocks(html)))

(***************************************************************************)
(* extractTextBody: the fallback chain.  extractTextBodyTraced pairs the   *)
(* returned string with the return statement that produced it.             *)
(***************************************************************************)
\* a variant whose last resort cleans what it returns, as the other branches do
extractTextBodyTracedCleaningLastResort(rawDoc) ==
    IF plainBoundaryMatch(rawDoc).found
    THEN [branch |-> "plain", value |-> cleanBody(plainBoundaryMatch(rawDoc).group1)]
    ELSE IF htmlMatch(rawDoc).found
    THEN [branch |-> "html", value |-> cleanBody(HtmlToText(htmlMatch(rawDoc).group1))]
    ELSE LET headerEnd == IndexOf(rawDoc, LitBlankLine)
         IN IF headerEnd > 0
            THEN [branch |-> "headers", value |-> cleanBody(SliceFrom(rawDoc, headerEnd + 4))]
            ELSE [branch |-> "lastResort",
                  value |-> cleanBody(SliceTo(rawDoc, LastResortLen))]

extractTextBodyTraced(rawDoc) ==
    IF plainBoundaryMatch(rawDoc).found
    THEN [branch |-> "plain", value |-> cleanBody(plainBoundaryMatch(rawDoc).group1)]
    ELSE IF htmlMatch(rawDoc).found
    THEN [branch |-> "html", value |-> cleanBody(HtmlToText(htmlMatch(rawDoc).group1))]
    ELSE LET headerEnd == IndexOf(rawDoc, LitBlankLine)
         IN IF headerEnd > 0
            THEN [branch |-> "headers", value |-> cleanBody(SliceFrom(rawDoc, headerEnd + 4))]
            ELSE [branch |-> "lastResort", value |-> SliceTo(rawDoc, LastResortLen)]

extractTextBody(rawDoc) == extractTextBodyTraced(rawDoc).value

(***************************************************************************)
(* The email handler: concatenate, TextDecoder and the payload.            *)
(***************************************************************************)
\* concatenate(arrays): the chunks copied one after the other, in order
RECURSIVE concatenate(_)
concatenate(arrays) ==
    IF arrays = <<>> THEN <<>>
    ELSE Head(arrays) \o concatenate(Tail(arrays))

\* new TextDecoder().decode(bytes), UTF-8, for the one- and two-byte forms (the
\* chunks of the model hold no byte above 0xDF): an ASCII byte is its own
\* character, a lead byte 0xC2..0xDF with its continuation byte is one character,
\* any other byte is U+FFFD
Utf8Decode(bytes) ==
    LET IsLead(i) == /\ bytes[i] \in 194..223
                     /\ i + 1 <= Len(bytes)
                     /\ bytes[i + 1] \in 128..191
        unit(i) == IF bytes[i] < 128 THEN bytes[i]
                   ELSE IF IsLead(i) THEN (bytes[i] - 192) * 64 + (bytes[i + 1] - 128)
                   ELSE IF bytes[i] \in 128..191 /\ i > 1 /\ IsLead(i - 1) THEN -1
                   ELSE REPLACEMENT
    IN SelectSeq([i \in 1..Len(bytes) |-> unit(i)], LAMBDA u : u >= 0)

\* message.headers.get("subject") || "(no subject)": header is <<>> when the
\* message has no Subject header, <<value>> when it has one
SubjectOf(header) ==
    IF header = <<>> \/ header[1] = <<>> THEN LitNoSubject ELSE header[1]

NoPayload == [source |-> "none"]

\* a variant that does not cap the body
BuildPayloadUncapped(from, to, subject, body, now) ==
    [source |-> "email", from |-> from, to |-> to, subject |-> subject,
     body |-> body, received_at |-> now]

\* the payload object of the handler
BuildPayload(from, to, subject, body, now) ==
    [source |-> "email", from |-> from, to |-> to, subject |-> subject,
     body |-> SliceTo(body, BodyCap), received_at |-> now]

\* the request that fetch(env.WEBHOOK_URL, {...}) issues
WebhookRequest(url, payload) ==
    [url |-> url, method |-> "POST", contentType |-> "application/json",
     body |-> payload]

(***************************************************************************)
(* Bounds and inputs of the model.                                         *)
(***************************************************************************)
MaxPulls == 3         \* pulls of the raw stream that resolve before it ends or fails
FillLen == 2001       \* length of the long chunk

Fill(n) == [i \in 1..n |-> 120]                         \* "xx...x"
ChunkPlainPart ==                                       \* "Content-Type: text/plain\r\n\r\n"
    <<67, 111, 110, 116, 101, 110, 116, 45, 84, 121, 112, 101, 58, 32,
      116, 101, 120, 116, 47, 112, 108, 97, 105, 110, 13, 10, 13, 10>>
ChunkBoundary == <<61, 50, 48, 194, 160, 13, 10, 45, 45>>  \* "=20", U+00A0 as UTF-8, "\r\n--"
ChunkSet == {<<>>, ChunkPlainPart, ChunkBoundary, Fill(FillLen)}

Messages ==
    [from : {"a@x.com"}, to : {"b@y.com"},
     subjectHeader : {<<>>, <<<<>>>>, <<<<79, 117, 116, 97, 103, 101>>>>}]  \* none, "", "Outage"
Times == {"2026-01-01T00:00:00.000Z"}
WEBHOOK_URL == "https://monitor.example/webhook"
Statuses == {200, 500}
TransportErrors == {"TypeError: connection refused"}

VARIABLES
    pc,             \* where the invocation is: "reading" (awaiting reader.read()),
                    \* "posting" (awaiting fetch), "returned", "rejected"
    message,        \* the ForwardableEmailMessage: from, to, the Subject header
    streamErrored,  \* the raw stream has failed
    chunks,         \* the handler's chunks array
    skipped,        \* pulls that resolved with done = false and no value
    rawEmail,       \* the decoded raw document
    body,           \* the extracted body
    payload,        \* the payload object, NoPayload before it is built
    posts,          \* the requests issued with fetch, in order
    log,            \* console output, in order
    doc,            \* a raw document given to extractTextBody
    shape,          \* how doc was put together: "plain", "html", "headers", "unseparated"
    content,        \* the content of the section (or the text after the separator) in doc
    result,         \* what extractTextBody returned
    branch,         \* the return statement it took
    stage,          \* "input", then "extracted"
    text,           \* a text given to cleanBody
    cleaned,        \* cleanBody(text)
    recleaned,      \* cleanBody(cleaned)
    splitText,      \* text with one soft line break inserted
    splitCleaned,   \* cleanBody(splitText)
    cleanStage      \* "input", "cleaned", then "recleaned" or "split"

handlerVars == <<pc, message, streamErrored, chunks, skipped, rawEmail, body, payload, posts, log>>
extractVars == <<doc, shape, content, result, branch, stage>>
cleanVars == <<text, cleaned, recleaned, splitText, splitCleaned, cleanStage>>
vars == <<handlerVars, extractVars, cleanVars>>

HandlerIdle ==
    /\ pc = "idle" /\ message = [from |-> "", to |-> "", subjectHeader |-> <<>>]
    /\ streamErrored = FALSE /\ chunks = <<>> /\ skipped = 0 /\ rawEmail = <<>>
    /\ body = <<>> /\ payload = NoPayload /\ posts = <<>> /\ log = <<>>

ExtractIdle ==
    /\ doc = <<>> /\ shape = "none" /\ content = <<>> /\ result = <<>>
    /\ branch = "none" /\ stage = "idle"

CleanIdle ==
    /\ text = <<>> /\ cleaned = <<>> /\ recleaned = <<>>
    /\ splitText = <<>> /\ splitCleaned = <<>> /\ cleanStage = "idle"

(***************************************************************************)
(* Spec: one invocation of the email handler.  The platform calls          *)
(* email(message, env); the handler suspends at each reader.read() and at  *)
(* fetch, and the stream and the webhook endpoint decide how each resumes. *)
(***************************************************************************)
Init ==
    /\ pc = "reading"
    /\ message \in Messages
    /\ streamErrored = FALSE
    /\ chunks = <<>>
    /\ skipped = 0
    /\ rawEmail = <<>>
    /\ body = <<>>
    /\ payload = NoPayload
    /\ posts = <<>>
    /\ log = <<>>
    /\ ExtractIdle
    /\ CleanIdle

\* reader.read() resolves with {done: false, value}: the chunk is pushed
ReadChunk ==
    /\ pc = "reading"
    /\ Len(chunks) + skipped < MaxPulls
    /\ \E value \in ChunkSet : chunks' = Append(chunks, value)
    /\ UNCHANGED <<pc, message, streamErrored, skipped, rawEmail, body, payload, posts, log>>
    /\ UNCHANGED <<extractVars, cleanVars>>

\* reader.read() resolves with {done: false} and no value: nothing is pushed
ReadNoValue ==
    /\ pc = "reading"
    /\ Len(chunks) + skipped < MaxPulls
    /\ skipped' = skipped + 1
    /\ UNCHANGED <<pc, message, streamErrored, chunks, rawEmail, body, payload, posts, log>>
    /\ UNCHANGED <<extractVars, cleanVars>>

\* a variant that catches the rejection and goes on as if the stream had ended
ReadFailSwallowed ==
    /\ pc = "reading"
    /\ streamErrored' = TRUE
    /\ \E now \in Times :
        LET decoded == Utf8Decode(concatenate(chunks))
            extracted == extractTextBody(decoded)
            subject == SubjectOf(message.subjectHeader)
            built == BuildPayload(message.from, message.to, subject, extracted, now)
        IN /\ rawEmail' = decoded
           /\ body' = extracted
           /\ payload' = built
           /\ log' = Append(log, [level |-> "log", text |-> "Email received",
                                  from |-> message.from, subject |-> subject])
           /\ posts' = Append(posts, WebhookRequest(WEBHOOK_URL, built))
    /\ pc' = "posting"
    /\ UNCHANGED <<message, chunks, skipped>>
    /\ UNCHANGED <<extractVars, cleanVars>>

\* reader.read() rejects: nothing catches it, the handler's promise rejects
ReadFail ==
    /\ pc = "reading"
    /\ streamErrored' = TRUE
    /\ pc' = "rejected"
    /\ UNCHANGED <<message, chunks, skipped, rawEmail, body, payload, posts, log>>
    /\ UNCHANGED <<extractVars, cleanVars>>

\* reader.read() resolves with {done: true}: the loop breaks, the document is
\* decoded, the body extracted, the payload built and logged, and fetch is called
ReadDone ==
    /\ pc = "reading"
    /\ \E now \in Times :
        LET decoded == Utf8Decode(concatenate(chunks))
            extracted == extractTextBody(decoded)
            subject == SubjectOf(message.subjectHeader)
            built == BuildPayload(message.from, message.to, subject, extracted, now)
        IN /\ rawEmail' = decoded
           /\ body' = extracted
           /\ payload' = built
           /\ log' = Append(log, [level |-> "log", text |-> "Email received",
                                  from |-> message.from, subject |-> subject])
           /\ posts' = Append(posts, WebhookRequest(WEBHOOK_URL, built))
    /\ pc' = "posting"
    /\ UNCHANGED <<message, streamErrored, chunks, skipped>>
    /\ UNCHANGED <<extractVars, cleanVars>>

\* fetch resolves with a response, of any status: the status is logged
FetchResponse ==
    /\ pc = "posting"
    /\ \E status \in Statuses :
        log' = Append(log, [level |-> "log", text |-> "Webhook response", status |-> status])
    /\ pc' = "returned"
    /\ UNCHANGED <<message, streamErrored, chunks, skipped, rawEmail, body, payload, posts>>
    /\ UNCHANGED <<extractVars, cleanVars>>

\* a variant without the try/catch: the rejection leaves the handler
FetchRejectUncaught ==
    /\ pc = "posting"
    /\ pc' = "rejected"
    /\ UNCHANGED <<message, streamErrored, chunks, skipped, rawEmail, body, payload, posts, log>>
    /\ UNCHANGED <<extractVars, cleanVars>>

\* a variant whose catch block issues the request again
FetchRejectRetries ==
    /\ pc = "posting"
    /\ \E err \in TransportErrors :
        log' = Append(log, [level |-> "error", text |-> "Webhook POST failed", err |-> err])
    /\ posts' = Append(posts, WebhookRequest(WEBHOOK_URL, payload))
    /\ pc' = "posting"
    /\ UNCHANGED <<message, streamErrored, chunks, skipped, rawEmail, body, payload>>
    /\ UNCHANGED <<extractVars, cleanVars>>

\* fetch rejects: the catch block logs the error with console.error
FetchReject ==
    /\ pc = "posting"
    /\ \E err \in TransportErrors :
        log' = Append(log, [level |-> "error", text |-> "Webhook POST failed", err |-> err])
    /\ pc' = "returned"
    /\ UNCHANGED <<message, streamErrored, chunks, skipped, rawEmail, body, payload, posts>>
    /\ UNCHANGED <<extractVars, cleanVars>>

Next ==
    \/ ReadChunk
    \/ ReadNoValue
    \/ ReadFail
    \/ ReadDone
    \/ FetchResponse
    \/ FetchReject

Spec == Init /\ [][Next]_vars

(***************************************************************************)
(* Claims about the email handler, checked under Spec.                     *)
(***************************************************************************)
IsPrefix(p, s) == Len(p) <= Len(s) /\ p = SubSeq(s, 1, Len(p))

\* C1: whenever the handler has built the payload, whatever the raw document and
\* the extraction branch, payload.body is at most 2000 characters long and is a
\* prefix of the extracted body; the request that is POSTed carries that payload.
C1_PayloadBodyCapped ==
    payload # NoPayload =>
        /\ Len(payload.body) <= BodyCap
        /\ IsPrefix(payload.body, body)
        /\ \A k \in 1..Len(posts) : posts[k].body = payload

\* a body longer than 2000 characters was extracted and cut to 2000
C1_Witness ==
    /\ pc = "posting"
    /\ Len(body) > BodyCap
    /\ Len(payload.body) = BodyCap
    /\ posts[1].body.body = SliceTo(body, BodyCap)

\* the last console line names the outcome of the POST: the status of the
\* response, or the description of the transport error
LastLogNamesOutcome ==
    /\ log # <<>>
    /\ LET e == log[Len(log)]
       IN \/ e.level = "log" /\ e.text = "Webhook response" /\ e.status \in Statuses
          \/ e.level = "error" /\ e.text = "Webhook POST failed" /\ e.err \in TransportErrors

\* C2: a delivery failure never fails the invocation: the handler rejects only
\* when the raw stream has failed, and once the POST has an outcome (a response of
\* any status, or a transport failure) the handler has logged the status or the
\* error description and returned.
C2_DeliveryFailureSwallowed ==
    /\ pc = "rejected" => streamErrored
    /\ pc = "returned" => LastLogNamesOutcome
    /\ pc \in {"reading", "posting", "returned", "rejected"}

\* the webhook answered 500 and the handler returned
C2_Witness ==
    /\ pc = "returned"
    /\ log[Len(log)].text = "Webhook response"
    /\ log[Len(log)].status = 500

\* C3 as stated: every invocation, however it ends, has issued exactly one POST.
C3_ExactlyOnePost ==
    pc \in {"returned", "rejected"} => Len(posts) = 1

\* C3 as amended: an invocation issues at most one POST, to the configured webhook
\* URL: exactly one once its raw stream has been read to exhaustion, none before
\* that or when the stream fails; a failed POST is not repeated.
C3_AtMostOnePost ==
    /\ Len(posts) <= 1
    /\ pc \in {"posting", "returned"} =>
          Len(posts) = 1 /\ posts[1].url = WEBHOOK_URL /\ posts[1].method = "POST"
    /\ pc \in {"reading", "rejected"} => posts = <<>>

\* the POST failed, the handler returned, one request was issued
C3_Witness ==
    /\ pc = "returned"
    /\ log[Len(log)].text = "Webhook POST failed"
    /\ Len(posts) = 1

\* C4: when a pull of the raw stream fails, the handler rejects, and in that
\* invocation no payload is built, nothing is logged and no POST is issued.
C4_StreamFailurePropagates ==
    streamErrored =>
        /\ pc = "rejected"
        /\ payload = NoPayload
        /\ posts = <<>>
        /\ log = <<>>

\* the stream failed after it had delivered chunks
C4_Witness ==
    /\ streamErrored
    /\ pc = "rejected"
    /\ Len(chunks) >= 2

(***************************************************************************)
(* SpecExtract: extractTextBody applied to raw documents of four shapes.   *)
(***************************************************************************)
MaxPlainTokens == 3   \* tokens in the content of a text/plain section
MaxHtmlTokens == 3    \* tokens in the content of a text/html section
MaxTailTokens == 3    \* tokens after the blank-line separator
MaxFreeTokens == 3    \* tokens of a document without separator
LongLen == 501        \* length of the long token of a document without separator

TokenSeqs(T, n) == UNION {[1..k -> T] : k \in 0..n}

CRLF == <<13, 10>>
TokContentTypePlain ==
    <<67, 111, 110, 116, 101, 110, 116, 45, 84, 121, 112, 101, 58, 32,
      116, 101, 120, 116, 47, 112, 108, 97, 105, 110>>              \* "Content-Type: text/plain"
TokContentTypeHtml ==
    <<67, 111, 110, 116, 101, 110, 116, 45, 84, 121, 112, 101, 58, 32,
      116, 101, 120, 116, 47, 104, 116, 109, 108>>                  \* "Content-Type: text/html"
TokPartHeader == <<88, 45, 97, 58, 32, 98>>                         \* "X-a: b"
TokBoundary == <<45, 45, 98>>                                       \* "--b"
TokHtmlBody == <<60, 112, 62, 104, 60, 47, 112, 62>>                \* "<p>h</p>"

\* "x", "=", "\r\n", "-", "3D", " "
PlainTokens == {<<120>>, <<61>>, CRLF, <<45>>, <<51, 68>>, <<32>>}
\* "&amp;", "lt;", "&lt;", "&gt;", "&nbsp;", "<b>", "<style>", "</style>"
HtmlTokens ==
    {LitAmp, <<108, 116, 59>>, LitLt, LitGt, LitNbsp, <<60, 98, 62>>,
     <<60, 115, 116, 121, 108, 101, 62>>, LitStyleClose}
\* "S: x", "\r\n", "=3D", " "
TailTokens == {<<83, 58, 32, 120>>, CRLF, <<61, 51, 68>>, <<32>>}
\* "x", "\n", "=3D", a long run of "x"
FreeTokens == {<<120>>, <<10>>, <<61, 51, 68>>, Fill(LongLen)}
\* what precedes the separator: nothing, "S: x", "S: x\r\nT: y"
HeaderBlocks == {<<>>, <<83, 58, 32, 120>>, <<83, 58, 32, 120, 13, 10, 84, 58, 32, 121>>}

\* a text/html part: its header, a blank line, its content and the boundary line
HtmlPart(nl, html) == TokContentTypeHtml \o nl \o nl \o html \o nl \o TokBoundary

\* a multipart document whose text/plain part holds the given content; layout
\* chooses the line ending, an extra part header and where a text/html part is
PlainDocument(layout, c) ==
    LET nl == IF layout = "lf" THEN <<10>> ELSE CRLF
        partHeaders == IF layout \in {"lf", "htmlBefore"} THEN TokPartHeader \o nl ELSE <<>>
        plainPart == TokContentTypePlain \o nl \o partHeaders \o nl \o c \o nl \o TokBoundary
    IN CASE layout = "htmlBefore" ->
               TokBoundary \o nl \o HtmlPart(nl, TokHtmlBody) \o nl \o plainPart
         [] layout = "htmlAfter" ->
               TokBoundary \o nl \o plainPart \o nl \o HtmlPart(nl, TokHtmlBody)
         [] OTHER -> TokBoundary \o nl \o plainPart
PlainLayouts == {"crlf", "lf", "htmlBefore", "htmlAfter"}

InitExtract ==
    /\ HandlerIdle
    /\ CleanIdle
    /\ stage = "input"
    /\ result = <<>>
    /\ branch = "none"
    /\ \/ /\ shape = "plain"
          /\ \E layout \in PlainLayouts, ts \in TokenSeqs(PlainTokens, MaxPlainTokens) :
                /\ content = concatenate(ts)
                /\ doc = PlainDocument(layout, content)
       \/ /\ shape = "html"
          /\ \E ts \in TokenSeqs(HtmlTokens, MaxHtmlTokens) :
                /\ content = concatenate(ts)
                /\ doc = TokBoundary \o CRLF \o HtmlPart(CRLF, content)
       \/ /\ shape = "headers"
          /\ \E h \in HeaderBlocks, ts \in TokenSeqs(TailTokens, MaxTailTokens) :
                /\ content = concatenate(ts)
                /\ doc = h \o LitBlankLine \o content
       \/ /\ shape = "unseparated"
          /\ \E ts \in TokenSeqs(FreeTokens, MaxFreeTokens) :
                /\ content = concatenate(ts)
                /\ doc = content

\* extractTextBody(doc) is called and returns
Extract ==
    /\ stage = "input"
    /\ result' = extractTextBodyTraced(doc).value
    /\ branch' = extractTextBodyTraced(doc).branch
    /\ stage' = "extracted"
    /\ UNCHANGED <<doc, shape, content>>
    /\ UNCHANGED <<handlerVars, cleanVars>>

NextExtract == Extract

SpecExtract == InitExtract /\ [][NextExtract]_vars

(***************************************************************************)
(* SpecClean: cleanBody applied to a text, to its own result, and to the   *)
(* text with a soft line break inserted.                                   *)
(***************************************************************************)
MaxCleanTokens == 3   \* tokens of a text given to cleanBody

\* "=", "3D", "20", "\r\n", "x", " "
CleanTokens == {<<61>>, <<51, 68>>, <<50, 48>>, CRLF, <<120>>, <<32>>}
TextHelloWorld ==     \* "Hello=\r\nWorld=3D1"
    <<72, 101, 108, 108, 111, 61, 13, 10, 87, 111, 114, 108, 100, 61, 51, 68, 49>>
SoftBreaks == {<<61, 13, 10>>, <<61, 10>>}      \* "=\r\n", "=\n"

Insert(s, p, piece) == SubSeq(s, 1, p) \o piece \o SubSeq(s, p + 1, Len(s))

InitClean ==
    /\ HandlerIdle
    /\ ExtractIdle
    /\ text \in {concatenate(ts) : ts \in TokenSeqs(CleanTokens, MaxCleanTokens)}
                   \cup {TextHelloWorld}
    /\ cleaned = <<>>
    /\ recleaned = <<>>
    /\ splitText = <<>>
    /\ splitCleaned = <<>>
    /\ cleanStage = "input"

\* cleanBody(text)
Clean ==
    /\ cleanStage = "input"
    /\ cleaned' = cleanBody(text)
    /\ cleanStage' = "cleaned"
    /\ UNCHANGED <<text, recleaned, splitText, splitCleaned>>
    /\ UNCHANGED <<handlerVars, extractVars>>

\* cleanBody applied to its own result
CleanAgain ==
    /\ cleanStage = "cleaned"
    /\ recleaned' = cleanBody(cleaned)
    /\ cleanStage' = "recleaned"
    /\ UNCHANGED <<text, cleaned, splitText, splitCleaned>>
    /\ UNCHANGED <<handlerVars, extractVars>>

\* cleanBody applied to the text with a soft line break inserted at position p
CleanSplit ==
    /\ cleanStage = "cleaned"
    /\ \E p \in 0..Len(text), brk \in SoftBreaks :
          /\ splitText' = Insert(text, p, brk)
          /\ splitCleaned' = cleanBody(Insert(text, p, brk))
    /\ cleanStage' = "split"
    /\ UNCHANGED <<text, cleaned, recleaned>>
    /\ UNCHANGED <<handlerVars, extractVars>>

NextClean ==
    \/ Clean
    \/ CleanAgain
    \/ CleanSplit

SpecClean == InitClean /\ [][NextClean]_vars

(***************************************************************************)
(* Claims about cleanBody, checked under SpecClean.                        *)
(***************************************************************************)
\* s holds no "=XX" hex escape
NoHexEscape(s) == \A i \in 1..Len(s) : HexEscapeEnd(s, i) = 0

\* s holds no soft line break
NoSoftBreak(s) == \A i \in 1..Len(s) : SoftBreakEnd(s, i) = 0

\* s without the characters of its soft line breaks, position by position
WithoutSoftBreaks(s) ==
    LET InBreak(i) == \E b \in 1..i : SoftBreakEnd(s, b) # 0 /\ i <= SoftBreakEnd(s, b)
        kept == SelectSeq([i \in 1..Len(s) |-> i], LAMBDA i : ~InBreak(i))
    IN [j \in 1..Len(kept) |-> s[kept[j]]]

\* s with each hex escape replaced, once, by the character with that code,
\* position by position
EscapesDecodedOnce(s) ==
    LET IsStart(i) == i >= 1 /\ HexEscapeEnd(s, i) # 0
        decoded == [i \in 1..Len(s) |-> IF IsStart(i) THEN HexChar(s, i) ELSE s[i]]
        kept == SelectSeq([i \in 1..Len(s) |-> i],
                          LAMBDA i : ~IsStart(i - 1) /\ ~IsStart(i - 2))
    IN [j \in 1..Len(kept) |-> decoded[kept[j]]]

\* C9 as stated: cleanBody is idempotent, cleanBody(cleanBody(s)) = cleanBody(s)
\* for every string s.
C9_CleanBodyIdempotent ==
    cleanStage = "recleaned" => recleaned = cleaned

\* C9 as amended: whitespace cleaning is idempotent (normalising the whitespace of
\* a cleaned string returns it unchanged), and cleanBody(cleanBody(s)) = cleanBody(s)
\* for every s whose cleaned form holds no "=XX" hex escape.
C9_CleanIdempotentWithoutEscapes ==
    /\ cleanStage # "input" => NormalizeWhitespace(cleaned) = cleaned
    /\ cleanStage = "recleaned" /\ NoHexEscape(cleaned) => recleaned = cleaned

\* a text that cleaning changed into a non-empty string without escapes was cleaned again
C9_Witness ==
    /\ cleanStage = "recleaned"
    /\ NoHexEscape(cleaned)
    /\ cleaned # text
    /\ cleaned # <<>>
    /\ recleaned = cleaned

\* C10: the quoted-printable unescape removes the soft line breaks of the text
\* before it substitutes hex escapes, and replaces each escape of what is left once
\* by the character with that code; a soft line break inserted anywhere in a text
\* without soft breaks, also inside an escape, does not change the result; and
\* "Hello=\r\nWorld=3D1" is decoded to "HelloWorld=1".
C10_SoftBreaksBeforeEscapes ==
    /\ cleanStage # "input" =>
          cleaned = NormalizeWhitespace(EscapesDecodedOnce(WithoutSoftBreaks(text)))
    /\ cleanStage = "split" /\ NoSoftBreak(text) => splitCleaned = cleaned
    /\ cleanStage # "input" /\ text = TextHelloWorld =>
          cleaned = <<72, 101, 108, 108, 111, 87, 111, 114, 108, 100, 61, 49>>

\* "=3D" split as "=3=\r\nD" was decoded to "="
C10_Witness ==
    /\ cleanStage = "split"
    /\ text = <<61, 51, 68>>
    /\ splitText = <<61, 51, 61, 13, 10, 68>>
    /\ splitCleaned = <<61>>

(***************************************************************************)
(* Claims about extractTextBody, checked under SpecExtract.                *)
(***************************************************************************)
\* no line of c begins with "--"
NoBoundaryLine(c) ==
    /\ ~MatchAt(c, 1, LitDashDash)
    /\ \A i \in 1..Len(c) : c[i] = LF => ~MatchAt(c, i + 1, LitDashDash)

\* s holds no blank line of any kind: no two line endings \r?\n in a row
NoBlankLine(s) ==
    \A i \in 1..Len(s) : ~(EndOfLine(s, i) # 0 /\ EndOfLine(s, EndOfLine(s, i)) # 0)

\* s with each of &nbsp; &amp; &lt; &gt; decoded exactly once, in one pass from
\* the left: what a decoded entity leaves behind is not looked at again
RECURSIVE EntitiesDecodedOnce(_)
EntitiesDecodedOnce(s) ==
    IF s = <<>> THEN <<>>
    ELSE IF MatchAt(s, 1, LitNbsp) THEN <<SP>> \o EntitiesDecodedOnce(SliceFrom(s, Len(LitNbsp)))
    ELSE IF MatchAt(s, 1, LitAmp) THEN <<AMP>> \o EntitiesDecodedOnce(SliceFrom(s, Len(LitAmp)))
    ELSE IF MatchAt(s, 1, LitLt) THEN <<LT>> \o EntitiesDecodedOnce(SliceFrom(s, Len(LitLt)))
    ELSE IF MatchAt(s, 1, LitGt) THEN <<GT>> \o EntitiesDecodedOnce(SliceFrom(s, Len(LitGt)))
    ELSE <<s[1]>> \o EntitiesDecodedOnce(Tail(s))

\* C5: for every document with a well-formed text/plain section (with a text/html
\* section before it, after it, or none), extractTextBody returns from its first
\* branch, and what it returns is that section's content, decoded and cleaned.
\* The content runs up to the line ending before the boundary line and holds no
\* line that begins with "--".
C5_PlainSectionWins ==
    stage = "extracted" /\ shape = "plain" /\ NoBoundaryLine(content) =>
        /\ branch = "plain"
        /\ result = cleanBody(content)

\* C6: for every document with a text/html section and no text/plain section,
\* extractTextBody returns from its second branch the section's content without
\* its <style> blocks and tags, with each of the four entities decoded exactly
\* once, cleaned.
C6_HtmlEntitiesDecodedOnce ==
    stage = "extracted" /\ shape = "html" =>
        /\ branch = "html"
        /\ result = cleanBody(EntitiesDecodedOnce(StripTags(StripStyleBlocks(content))))

\* C7: for every document with neither section and with a CR LF CR LF separator
\* at any position, the very start included, extractTextBody returns the cleaned
\* text after the first separator.
C7_TextAfterFirstSeparator ==
    /\ stage = "extracted"
    /\ shape \in {"headers", "unseparated"}
    /\ IndexOf(doc, LitBlankLine) >= 0
    => result = cleanBody(SliceFrom(doc, IndexOf(doc, LitBlankLine) + 4))

\* C8 as stated: for every document without a CR LF CR LF separator,
\* extractTextBody returns the first 500 characters of the document verbatim.
C8_NoSeparatorFirst500 ==
    stage = "extracted" /\ IndexOf(doc, LitBlankLine) = -1 =>
        result = SliceTo(doc, LastResortLen)

\* C8 as amended: for every document without a CR LF CR LF separator in which
\* neither section pattern matches (every document without a blank line of any
\* kind is one), extractTextBody returns the first 500 characters of the document
\* verbatim, the whole document when it is shorter; and every call returns a
\* string from one of the four branches.
C8_LastResortFirst500 ==
    stage = "extracted" =>
        /\ branch \in {"plain", "html", "headers", "lastResort"}
        /\ result \in Seq(Nat)
        /\ IndexOf(doc, LitBlankLine) = -1 /\ branch \notin {"plain", "html"} =>
              branch = "lastResort" /\ result = SliceTo(doc, LastResortLen)
        /\ NoBlankLine(doc) => branch = "lastResort" /\ result = SliceTo(doc, LastResortLen)

\* a document of more than 500 characters that starts with "=3D" and a line
\* feed was cut to 500 characters, the escape and the line feed kept
C8_Witness ==
    /\ stage = "extracted"
    /\ shape = "unseparated"
    /\ Len(doc) > LastResortLen
    /\ SubSeq(doc, 1, 4) = <<61, 51, 68, 10>>
    /\ branch = "lastResort"
    /\ Len(result) = LastResortLen
    /\ SubSeq(result, 1, 4) = <<61, 51, 68, 10>>

=============================================================================
